---------------------------- MODULE Spec2Model ----------------------------
(***************************************************************************)
(* A model of pct-diff's divergence engine (src/src/compare.rs): the       *)
(* segment index, the sampler, the run detector and the fan-out over       *)
(* sections.                                                               *)
(*                                                                         *)
(* Numbers.  The code computes in f64 over longitude/latitude degrees and  *)
(* metres.  The model computes in whole numbers over a small flat grid:    *)
(*   - a coordinate is a grid position and a length is a whole number of   *)
(*     grid steps; Haversine::distance is the planar distance rounded      *)
(*     down to a whole step;                                               *)
(*   - every input polyline has its consecutive vertices on a common grid  *)
(*     row or column, so that the interpolation of sample_along and the    *)
(*     projection of haversine_point_to_segment are exact divisions;       *)
(*   - f64::MAX is the number F64MAX, above every distance of the grid,    *)
(*     and an f64 sum that overflows is Inf.                               *)
(* Rounding inside a single f64 operation is therefore not modelled.       *)
(***************************************************************************)
EXTENDS Integers, Sequences, FiniteSets, TLC

VARIABLES
    osm_lines,          \* main: the comparison dataset, Vec<LineString>
    pcta_sections,      \* main: the reference dataset, Vec<PctaSection>
    threshold_m,        \* Cli::threshold
    min_length_m,       \* Cli::min_length
    sample_interval_m,  \* Cli::sample_interval
    osm_index,          \* the RTree<IndexedSegment>: its segments, once built
    main_pc,            \* where main / find_divergences stands
    worker,             \* per section: the closure of find_divergences at work on it
    result,             \* the Vec<Divergence> find_divergences returns
    query,              \* a point handed to nearest_neighbor
    nn,                 \* what nearest_neighbor returned for it
    io                  \* main before and after the core: the files and
                        \* responses it reads, fetch_relation_ways' locals,
                        \* the failed step, the output file

vars == <<osm_lines, pcta_sections, threshold_m, min_length_m,
          sample_interval_m, osm_index, main_pc, worker, result, query, nn, io>>

-----------------------------------------------------------------------------
(* Bounds of the model. *)

\* Grid columns are 0..MaxX, grid rows 0..MaxY.
MaxX == 4
MaxY == 1
\* The most vertices of an input polyline.
MaxPts == 3
\* The most (point, distance) samples a scan is started on directly.
MaxSamples == 5
\* The distance of a sample that is off the segments of the index.
MaxDist == 1
\* min_length_m runs over 0..MaxMinLength.
MaxMinLength == 2
\* The most sections find_divergences is given.
MaxSections == 2

-----------------------------------------------------------------------------
(* f64 *)

\* f64::MAX, the distance of a sample when the index holds nothing.
F64MAX == 1000
\* +infinity, what an f64 sum becomes once it exceeds f64::MAX by half an ulp.
Inf == 2 * F64MAX

\* a + b in f64, for a and b that are each a grid distance, F64MAX or Inf:
\* F64MAX plus a grid distance rounds back to F64MAX, F64MAX + F64MAX is Inf.
FAdd(a, b) ==
    IF a = Inf \/ b = Inf \/ a + b >= 2 * F64MAX THEN Inf
    ELSE IF a + b > F64MAX THEN F64MAX
    ELSE a + b

\* f64::max
FMax(a, b) == IF a >= b THEN a ELSE b

-----------------------------------------------------------------------------
(* Geometry: geo::Coord, geo::Line, geo::LineString *)

Coord(x, y) == [x |-> x, y |-> y]

\* The integer square root, rounded down.
Isqrt(n) == CHOOSE r \in 0..n : r * r <= n /\ (r + 1) * (r + 1) > n

\* Haversine::distance(p, q): the distance between two points, in whole steps.
HaversineDistance(p, q) ==
    Isqrt((p.x - q.x) * (p.x - q.x) + (p.y - q.y) * (p.y - q.y))

\* LineString::lines(): the consecutive vertex pairs; none for fewer than 2 points.
Lines(ls) ==
    [j \in 1..(IF Len(ls) < 2 THEN 0 ELSE Len(ls) - 1) |->
        [start |-> ls[j], end |-> ls[j + 1]]]

\* LineString::length::<Haversine>(): the sum of the lengths of its lines.
RECURSIVE SumLengths(_, _)
SumLengths(lines, j) ==
    IF j > Len(lines) THEN 0
    ELSE HaversineDistance(lines[j].start, lines[j].end) + SumLengths(lines, j + 1)

HaversineLength(ls) == SumLengths(Lines(ls), 1)

\* The 1e-10 of the code's zero-length checks: lengths are whole steps here, so
\* "shorter than 1e-10" is "shorter than one step".
Epsilon == 1

-----------------------------------------------------------------------------
(* emit_divergence *)

RECURSIVE FoldMax(_, _, _)
\* run.iter().map(|(_, d)| *d).fold(acc, f64::max), from element j on.
FoldMax(run, j, acc) ==
    IF j > Len(run) THEN acc ELSE FoldMax(run, j + 1, FMax(acc, run[j].dist))

RECURSIVE FoldSum(_, _, _)
\* run.iter().map(|(_, d)| *d).sum::<f64>(), from element j on.
FoldSum(run, j, acc) ==
    IF j > Len(run) THEN acc ELSE FoldSum(run, j + 1, FAdd(acc, run[j].dist))

\* The coordinates of a run of (coord, dist) samples.
RunCoords(run) == [j \in 1..Len(run) |-> run[j].coord]

\* sum / run.len() in f64, kept as the exact quotient num/den (Inf / n is Inf).
FDiv(sum, n) == IF sum = Inf THEN [num |-> Inf, den |-> 1] ELSE [num |-> sum, den |-> n]

\* A slip of PassesMinLength: a run exactly min_length long is dropped.
PassesMinLengthStrict(length, min_length) == length > min_length

\* Whether emit_divergence keeps the run: `if length < min_length_m { return; }`.
PassesMinLength(length, min_length) == ~(length < min_length)

\* emit_divergence(run, section_name, min_length_m, &mut divergences): the
\* divergences afterwards.
EmitDivergence(run, section_name, min_length, divergences) ==
    LET ls == RunCoords(run)
        length == HaversineLength(ls)
    IN  IF ~PassesMinLength(length, min_length) THEN divergences
        ELSE Append(divergences,
                [pcta_segment    |-> ls,
                 section_name    |-> section_name,
                 max_distance_m  |-> FoldMax(run, 1, 0),
                 mean_distance_m |-> FDiv(FoldSum(run, 1, 0), Len(run)),
                 length_m        |-> length])


-----------------------------------------------------------------------------
(* haversine_point_to_segment, IndexedSegment, build_index *)

\* f64::clamp(lo, hi)
Clamp(v, lo, hi) == IF v < lo THEN lo ELSE IF v > hi THEN hi ELSE v

\* haversine_point_to_segment(point, seg_start, seg_end).  t is the quotient
\* num / den; the closest point is seg_start + t * (dx, dy).
HaversinePointToSegment(point, seg_start, seg_end) ==
    LET ab_len == HaversineDistance(seg_start, seg_end)
        dx == seg_end.x - seg_start.x
        dy == seg_end.y - seg_start.y
        num == (point.x - seg_start.x) * dx + (point.y - seg_start.y) * dy
        den == dx * dx + dy * dy
        t_num == Clamp(num, 0, den)
        closest == Coord(seg_start.x + (t_num * dx) \div den,
                         seg_start.y + (t_num * dy) \div den)
    IN  IF ab_len < Epsilon THEN HaversineDistance(point, seg_start)
        ELSE HaversineDistance(point, closest)

\* IndexedSegment::new(start, end)
IndexedSegment(start, end) == [start |-> start, end |-> end]

\* A slip of Distance2: the distance to the start of the segment, squared.
Distance2ToStart(seg, point) ==
    HaversineDistance(point, seg.start) * HaversineDistance(point, seg.start)

\* <IndexedSegment as PointDistance>::distance_2: the ordering key of the tree.
Distance2(seg, point) ==
    LET dist == HaversinePointToSegment(point, seg.start, seg.end)
    IN  dist * dist

\* A slip of FlatMapLines: the last line of every polyline is left out.
RECURSIVE FlatMapLinesDropLast(_, _)
FlatMapLinesDropLast(lines, j) ==
    IF j > Len(lines) THEN <<>>
    ELSE [n \in 1..(Len(Lines(lines[j])) - 1) |->
              IndexedSegment(Lines(lines[j])[n].start, Lines(lines[j])[n].end)]
         \o FlatMapLinesDropLast(lines, j + 1)

RECURSIVE FlatMapLines(_, _)
\* osm_lines.par_iter().flat_map_iter(|ls| ls.lines().map(IndexedSegment::new))
\* .collect(), from polyline j on: rayon's collect keeps the order of the input.
FlatMapLines(lines, j) ==
    IF j > Len(lines) THEN <<>>
    ELSE [n \in 1..Len(Lines(lines[j])) |->
              IndexedSegment(Lines(lines[j])[n].start, Lines(lines[j])[n].end)]
         \o FlatMapLines(lines, j + 1)

\* build_index(osm_lines, progress): the segments RTree::bulk_load is given.
BuildIndexSegments(lines) == FlatMapLines(lines, 1)

\* RTree::nearest_neighbor(&point), by rstar's contract: None (the empty
\* sequence) on an empty tree, else Some of a segment no other segment has a
\* smaller distance_2 than; which one of several such is not specified.
NearestNeighbor(index, point) ==
    IF Len(index) = 0 THEN {<<>>}
    ELSE {<<index[n]>> : n \in {m \in 1..Len(index) :
              \A o \in 1..Len(index) :
                  Distance2(index[m], point) <= Distance2(index[o], point)}}

\* A slip of SampleDistance: `.unwrap_or(0.0)`.
SampleDistanceZero(coord, nearest) ==
    IF nearest = <<>> THEN 0
    ELSE HaversinePointToSegment(coord, nearest[1].start, nearest[1].end)

\* .map(|seg| haversine_point_to_segment(coord, seg.line.start, seg.line.end))
\* .unwrap_or(f64::MAX), for one answer of nearest_neighbor.
SampleDistance(coord, nearest) ==
    IF nearest = <<>> THEN F64MAX
    ELSE HaversinePointToSegment(coord, nearest[1].start, nearest[1].end)

\* The distances process_linestring can pair a sample with.
SampleDistances(index, coord) ==
    {SampleDistance(coord, nearest) : nearest \in NearestNeighbor(index, coord)}

-----------------------------------------------------------------------------
(* The closure of find_divergences at work on one section *)

None == <<>>
Some(v) == <<v>>

\* A closure that has not started.
IdleWorker ==
    [pc |-> "idle",
     k |-> 0,              \* the polyline of section.geometry.0 in hand, 1-based
     line |-> 0,           \* sample_along: the line of ls.lines() in hand, 1-based
     offset |-> 0,         \* sample_along: offset
     remaining |-> 0,      \* sample_along: remaining
     samples |-> <<>>,     \* sample_along: samples
     distances |-> <<>>,   \* process_linestring: distances
     i |-> 0,              \* process_linestring: the loop index, 0-based
     run_start |-> None,   \* process_linestring: run_start
     divergences |-> <<>>, \* process_linestring: divergences
     calls |-> <<>>,       \* history: each emit_divergence call, its run [start, end)
                           \* and how many records it pushed
     divs |-> <<>>]        \* the section's divs so far

Sections == 1..Len(pcta_sections)

\* The closures rayon may run: one per section, at most MaxSections.
Closures == 1..MaxSections

\* The polyline worker s has in hand.
Ls(s) == pcta_sections[s].geometry[worker[s].k]

InputsUnchanged ==
    UNCHANGED <<osm_lines, pcta_sections, threshold_m, min_length_m,
                sample_interval_m, io>>

SetWorker(s, w) ==
    /\ worker' = [worker EXCEPT ![s] = w]
    /\ InputsUnchanged
    /\ UNCHANGED <<osm_index, main_pc, result, query, nn>>

-----------------------------------------------------------------------------
(* sample_along, one step of its control flow at a time.  Each step is a    *)
(* function from the closure's record to its record after the step.        *)

\* The entry of sample_along(ls, interval_m): fewer than 2 points are returned
\* as they are; else the first vertex is emitted and one interval is owed.
SampleBeginStep(w, ls, interval) ==
    IF Len(ls) < 2
    THEN [w EXCEPT !.samples = ls, !.pc = "sampled"]
    ELSE [w EXCEPT !.samples = <<ls[1]>>,
                   !.remaining = interval,
                   !.line = 1,
                   !.pc = "line"]

\* A slip of SampleLineStep: a line shorter than 1e-10 is looked at again
\* instead of being left for the next one.
SampleLineStepStuck(w, ls) ==
    LET lines == Lines(ls) IN
    IF w.line > Len(lines)
    THEN [w EXCEPT !.pc = "last"]
    ELSE LET seg_len == HaversineDistance(lines[w.line].start, lines[w.line].end)
         IN  IF seg_len < Epsilon
             THEN w
             ELSE [w EXCEPT !.offset = w.remaining, !.pc = "while"]

\* The head of `for line in ls.lines()`: the loop ends, a line shorter than
\* 1e-10 is skipped, any other line is entered with offset = remaining.
SampleLineStep(w, ls) ==
    LET lines == Lines(ls) IN
    IF w.line > Len(lines)
    THEN [w EXCEPT !.pc = "last"]
    ELSE LET seg_len == HaversineDistance(lines[w.line].start, lines[w.line].end)
         IN  IF seg_len < Epsilon
             THEN [w EXCEPT !.line = @ + 1]
             ELSE [w EXCEPT !.offset = w.remaining, !.pc = "while"]

\* start + t * (end - start) with t = offset / seg_len, on one axis.
Interpolate(from, to, offset, seg_len) == from + (offset * (to - from)) \div seg_len

\* A slip of SampleWhileStep: what is owed is not carried over; every line
\* starts one interval short.
SampleWhileStepNoCarry(w, ls, interval) ==
    LET line == Lines(ls)[w.line]
        seg_len == HaversineDistance(line.start, line.end)
        coord == Coord(Interpolate(line.start.x, line.end.x, w.offset, seg_len),
                       Interpolate(line.start.y, line.end.y, w.offset, seg_len))
    IN  IF w.offset <= seg_len
        THEN [w EXCEPT !.samples = Append(@, coord), !.offset = @ + interval]
        ELSE [w EXCEPT !.remaining = interval,
                       !.line = @ + 1,
                       !.pc = "line"]

\* One test of `while offset <= seg_len`: a sample is pushed and the offset
\* moves on by the interval, or the loop ends and what is owed is carried over.
SampleWhileStep(w, ls, interval) ==
    LET line == Lines(ls)[w.line]
        seg_len == HaversineDistance(line.start, line.end)
        coord == Coord(Interpolate(line.start.x, line.end.x, w.offset, seg_len),
                       Interpolate(line.start.y, line.end.y, w.offset, seg_len))
    IN  IF w.offset <= seg_len
        THEN [w EXCEPT !.samples = Append(@, coord), !.offset = @ + interval]
        ELSE [w EXCEPT !.remaining = w.offset - seg_len,
                       !.line = @ + 1,
                       !.pc = "line"]

\* A slip of NeedsLast: the last vertex is pushed whatever the last sample is.
NeedsLastAlways(samples, last) == TRUE

\* Whether the last vertex is pushed: `samples.last() != Some(&last)`.
NeedsLast(samples, last) == samples[Len(samples)] # last

\* "Always include the last point", and the return of the samples.
SampleLastStep(w, ls) ==
    IF NeedsLast(w.samples, ls[Len(ls)])
    THEN [w EXCEPT !.samples = Append(@, ls[Len(ls)]), !.pc = "sampled"]
    ELSE [w EXCEPT !.pc = "sampled"]

-----------------------------------------------------------------------------
(* process_linestring *)

\* The distance sequences the parallel, order-keeping map over the samples can
\* produce: sample j is paired with its distance to a nearest indexed segment.
DistanceChoices(index, samples) ==
    {dists \in [1..Len(samples) ->
                   UNION {SampleDistances(index, samples[j]) : j \in 1..Len(samples)}] :
        \A j \in 1..Len(samples) : dists[j] \in SampleDistances(index, samples[j])}

\* After sample_along: no samples return an empty Vec; else the samples are
\* paired with the distances dists and the scan starts with run_start = None.
DistancesStep(w, dists) ==
    IF Len(w.samples) = 0
    THEN [w EXCEPT !.pc = "next"]
    ELSE [w EXCEPT
            !.distances = [j \in 1..Len(w.samples) |->
                              [coord |-> w.samples[j], dist |-> dists[j]]],
            !.divergences = <<>>,
            !.calls = <<>>,
            !.run_start = None,
            !.i = 0,
            !.pc = "scan"]

\* A slip of Divergent: a sample exactly at the threshold counts as divergent.
DivergentAtThreshold(distances, i, threshold) ==
    i < Len(distances) /\ distances[i + 1].dist >= threshold

\* `i < distances.len() && distances[i].1 > threshold_m`
Divergent(distances, i, threshold) ==
    i < Len(distances) /\ distances[i + 1].dist > threshold

\* A slip of Slice: `&distances[start + 1..i]`.
SliceSkipsFirst(distances, start, i) == SubSeq(distances, start + 2, i)

\* &distances[start..i]
Slice(distances, start, i) == SubSeq(distances, start + 1, i)

\* A slip of LoopLast: `0..distances.len()`, no sentinel iteration.
LoopLastNoSentinel(distances) == Len(distances) - 1

\* The last value of `for i in 0..=distances.len()`: one past the last sample.
LoopLast(distances) == Len(distances)

\* A slip of ScanIter: run_start is not reset after a run is finalized.
ScanIterNoReset(w, section_name, threshold, min_length) ==
    LET divergent == Divergent(w.distances, w.i, threshold) IN
    IF divergent /\ w.run_start = None
    THEN [w EXCEPT !.run_start = Some(w.i), !.i = @ + 1]
    ELSE IF ~divergent /\ w.run_start # None
    THEN LET start == w.run_start[1]
             run == Slice(w.distances, start, w.i)
             after == EmitDivergence(run, section_name, min_length, w.divergences)
         IN  [w EXCEPT
                !.divergences = after,
                !.calls = Append(@, [start |-> start, end |-> w.i,
                                     pushed |-> Len(after) - Len(w.divergences)]),
                !.i = @ + 1]
    ELSE [w EXCEPT !.i = @ + 1]

\* The body of `for i in 0..=distances.len()` for the current i.
ScanIter(w, section_name, threshold, min_length) ==
    LET divergent == Divergent(w.distances, w.i, threshold) IN
    IF divergent /\ w.run_start = None
    THEN [w EXCEPT !.run_start = Some(w.i), !.i = @ + 1]
    ELSE IF ~divergent /\ w.run_start # None
    THEN LET start == w.run_start[1]
             run == Slice(w.distances, start, w.i)
             after == EmitDivergence(run, section_name, min_length, w.divergences)
         IN  [w EXCEPT
                !.divergences = after,
                !.calls = Append(@, [start |-> start, end |-> w.i,
                                     pushed |-> Len(after) - Len(w.divergences)]),
                !.run_start = None,
                !.i = @ + 1]
    ELSE [w EXCEPT !.i = @ + 1]

\* The loop is over: process_linestring returns its divergences, which the
\* flat_map of the section's closure appends to the section's divs.
ScanReturnStep(w) == [w EXCEPT !.divs = @ \o w.divergences, !.pc = "next"]

\* section.geometry.0.iter().flat_map(..): the next polyline is processed, or
\* the closure ends (pb.inc(1)) and yields its divs.
NextLinestringStep(w, section) ==
    IF w.k < Len(section.geometry)
    THEN [w EXCEPT !.k = @ + 1, !.pc = "sample"]
    ELSE [w EXCEPT !.pc = "done"]

-----------------------------------------------------------------------------
(* The closure run on its own, from its first step to its last *)

\* The step the closure takes next on section, whatever else runs.
StepAlone(w, section, index, threshold, min_length, interval) ==
    LET ls == section.geometry[w.k] IN
    CASE w.pc = "next" -> NextLinestringStep(w, section)
      [] w.pc = "sample" -> SampleBeginStep(w, ls, interval)
      [] w.pc = "line" -> SampleLineStep(w, ls)
      [] w.pc = "while" -> SampleWhileStep(w, ls, interval)
      [] w.pc = "last" -> SampleLastStep(w, ls)
      [] w.pc = "sampled" ->
            DistancesStep(w, CHOOSE dists \in DistanceChoices(index, w.samples) : TRUE)
      [] w.pc = "scan" ->
            IF w.i <= LoopLast(w.distances)
            THEN ScanIter(w, section.section_name, threshold, min_length)
            ELSE ScanReturnStep(w)

RECURSIVE RunAlone(_, _, _, _, _, _)
RunAlone(w, section, index, threshold, min_length, interval) ==
    IF w.pc = "done" THEN w
    ELSE RunAlone(StepAlone(w, section, index, threshold, min_length, interval),
                  section, index, threshold, min_length, interval)

\* process_linestring(ls, section_name, osm_index, ...) on its own.
ProcessLinestring(ls, section_name, index, threshold, min_length, interval) ==
    RunAlone([IdleWorker EXCEPT !.pc = "next"],
             [section_name |-> section_name, geometry |-> <<ls>>],
             index, threshold, min_length, interval).divs

-----------------------------------------------------------------------------
(* The steps as actions of closure s *)

At(s, pc) == s \in Sections /\ worker[s].pc = pc

SampleBegin(s) ==
    /\ At(s, "sample")
    /\ SetWorker(s, SampleBeginStep(worker[s], Ls(s), sample_interval_m))

SampleLine(s) ==
    /\ At(s, "line")
    /\ SetWorker(s, SampleLineStep(worker[s], Ls(s)))

SampleWhile(s) ==
    /\ At(s, "while")
    /\ SetWorker(s, SampleWhileStep(worker[s], Ls(s), sample_interval_m))

SampleLast(s) ==
    /\ At(s, "last")
    /\ SetWorker(s, SampleLastStep(worker[s], Ls(s)))

ComputeDistances(s) ==
    /\ At(s, "sampled")
    /\ \E dists \in DistanceChoices(osm_index, worker[s].samples) :
          SetWorker(s, DistancesStep(worker[s], dists))

ScanStep(s) ==
    /\ At(s, "scan")
    /\ worker[s].i <= LoopLast(worker[s].distances)
    /\ SetWorker(s, ScanIter(worker[s], pcta_sections[s].section_name,
                             threshold_m, min_length_m))

ScanReturn(s) ==
    /\ At(s, "scan")
    /\ worker[s].i > LoopLast(worker[s].distances)
    /\ SetWorker(s, ScanReturnStep(worker[s]))

NextLinestring(s) ==
    /\ At(s, "next")
    /\ main_pc = "finding"
    /\ SetWorker(s, NextLinestringStep(worker[s], pcta_sections[s]))

-----------------------------------------------------------------------------
(* build_index, find_divergences and the nearest-neighbour query *)

\* main: `let index = build_index(&osm_lines, ...)`.
BuildIndex ==
    /\ main_pc = "start"
    /\ osm_index' = BuildIndexSegments(osm_lines)
    /\ main_pc' = "indexed"
    /\ InputsUnchanged
    /\ UNCHANGED <<worker, result, query, nn>>

\* find_divergences is entered: pcta_sections.par_iter() hands every section
\* to a closure; rayon runs the closures in any order and interleaving.
FindDivergences ==
    /\ main_pc = "indexed"
    /\ main_pc' = "finding"
    /\ worker' = [s \in Sections |-> [IdleWorker EXCEPT !.pc = "next"]]
    /\ InputsUnchanged
    /\ UNCHANGED <<osm_index, result, query, nn>>

\* A slip of ConcatDivs: the closures write one shared Vec, and each
\* overwrites what the ones before it wrote.
RECURSIVE ConcatDivsShared(_, _)
ConcatDivsShared(w, j) ==
    IF j > Len(w) THEN <<>>
    ELSE IF ConcatDivsShared(w, j + 1) # <<>> THEN ConcatDivsShared(w, j + 1)
    ELSE w[j].divs

RECURSIVE ConcatDivs(_, _)
\* The divs of the closures from section j on, joined in the order of the
\* sections (rayon's collect keeps the order of the input).
ConcatDivs(w, j) ==
    IF j > Len(w) THEN <<>> ELSE w[j].divs \o ConcatDivs(w, j + 1)

\* .collect() of find_divergences: once every closure has ended, their divs
\* are joined into the returned Vec.
Collect ==
    /\ main_pc = "finding"
    /\ \A s \in Sections : worker[s].pc = "done"
    /\ result' = ConcatDivs(worker, 1)
    /\ main_pc' = "done"
    /\ InputsUnchanged
    /\ UNCHANGED <<osm_index, worker, query, nn>>

\* osm_index.nearest_neighbor(&point) for a point p, on the built index.
NearestNeighborQuery(p) ==
    /\ main_pc = "indexed"
    /\ query' = Some(p)
    /\ \E nearest \in NearestNeighbor(osm_index, p) : nn' = nearest
    /\ InputsUnchanged
    /\ UNCHANGED <<osm_index, main_pc, worker, result>>

-----------------------------------------------------------------------------
(* Inputs *)

Points == {Coord(x, y) : x \in 0..MaxX, y \in 0..MaxY}

\* Two vertices on a common grid row or column.
Aligned(p, q) == p.x = q.x \/ p.y = q.y

\* The polylines of m vertices the model draws its inputs from: each vertex
\* is on a row or column with the one before.
Polylines(m) ==
    {ls \in [1..m -> Points] : \A j \in 1..(m - 1) : Aligned(ls[j], ls[j + 1])}

\* The thresholds: small ones, and f64::MAX itself.
MaxThreshold == 2
Thresholds == (0..MaxThreshold) \cup {F64MAX}

MinLengths == 0..MaxMinLength

\* The sampling intervals: positive.
MaxInterval == 3
Intervals == 1..MaxInterval

\* main past both loads: nothing is left to read, nothing has failed, nothing
\* is written yet.
Loaded ==
    [gdb |-> [opens |-> TRUE, sections |-> <<>>],
     top |-> [parses |-> TRUE, members |-> <<>>],
     remote |-> <<>>, cache |-> {}, sub |-> 1,
     all_lines |-> <<>>, ret |-> "Ok", err |-> None, output |-> FALSE]

\* The state before find_divergences is entered, for the given inputs.
Start(lines, sections, threshold, min_length, interval) ==
    /\ osm_lines = lines
    /\ pcta_sections = sections
    /\ threshold_m = threshold
    /\ min_length_m = min_length
    /\ sample_interval_m = interval
    /\ osm_index = <<>>
    /\ main_pc = "start"
    /\ worker = [s \in 1..Len(sections) |-> IdleWorker]
    /\ result = <<>>
    /\ query = None
    /\ nn = None
    /\ io = Loaded

-----------------------------------------------------------------------------
(* The scan of process_linestring on any sequence of samples *)

\* Sample points along a grid row: each is at the point before it or one
\* grid step further, as moves[j] says.
RECURSIVE RowCoords(_, _, _)
RowCoords(moves, j, x) ==
    IF j > Len(moves) THEN <<Coord(x, 0)>>
    ELSE <<Coord(x, 0)>> \o RowCoords(moves, j + 1, IF moves[j] THEN x + 1 ELSE x)

\* The distance sequences of n samples: every sample is on a segment of the
\* index or MaxDist away from the nearest one, or the index holds no segment
\* and every sample has f64::MAX.
DistanceSeqs(n) == [1..n -> {0, MaxDist}] \cup {[j \in 1..n |-> F64MAX]}

InitScan ==
    \E n \in 1..MaxSamples :
    \E moves \in [1..(n - 1) -> BOOLEAN], dists \in DistanceSeqs(n) :
    \E threshold \in 0..(MaxDist - 1), min_length \in MinLengths :
        LET coords == RowCoords(moves, 1, 0) IN
        /\ osm_lines = <<>>
        /\ pcta_sections = <<[section_name |-> "Test", geometry |-> <<coords>>]>>
        /\ threshold_m = threshold
        /\ min_length_m = min_length
        /\ sample_interval_m = 1
        /\ osm_index = <<>>
        /\ main_pc = "finding"
        /\ worker = <<[IdleWorker EXCEPT
                         !.pc = "scan",
                         !.k = 1,
                         !.samples = coords,
                         !.distances = [j \in 1..n |-> [coord |-> coords[j], dist |-> dists[j]]]]>>
        /\ result = <<>>
        /\ query = None
        /\ nn = None
        /\ io = Loaded

NextScan ==
    \/ \E s \in Closures : ScanStep(s)
    \/ \E s \in Closures : ScanReturn(s)
    \/ \E s \in Closures : NextLinestring(s)
    \/ Collect

SpecScan == InitScan /\ [][NextScan]_vars

-----------------------------------------------------------------------------
(* sample_along on any polyline and interval *)

InitSample ==
    \E m \in 0..MaxPts :
    \E ls \in Polylines(m), interval \in Intervals :
        /\ osm_lines = <<>>
        /\ pcta_sections = <<[section_name |-> "Test", geometry |-> <<ls>>]>>
        /\ threshold_m = 0
        /\ min_length_m = 0
        /\ sample_interval_m = interval
        /\ osm_index = <<>>
        /\ main_pc = "finding"
        /\ worker = <<[IdleWorker EXCEPT !.pc = "sample", !.k = 1]>>
        /\ result = <<>>
        /\ query = None
        /\ nn = None
        /\ io = Loaded

NextSample ==
    \/ \E s \in Closures : SampleBegin(s)
    \/ \E s \in Closures : SampleLine(s)
    \/ \E s \in Closures : SampleWhile(s)
    \/ \E s \in Closures : SampleLast(s)

SpecSample == InitSample /\ [][NextSample]_vars

-----------------------------------------------------------------------------
(* sample_along on any interval the command line lets through *)

\* The iterations of `while offset <= seg_len` that are followed when the
\* interval is not positive.
MaxIterations == 4

\* Cli::sample_interval is any f64: the sign is not looked at, neither by the
\* parser nor by find_divergences or sample_along.
AnyIntervals == (-1)..MaxInterval

\* The polylines of the bounds that start at column 0 of row 0, with any interval.
InitSampleAny ==
    \E m \in 0..MaxPts :
    \E ls \in {l \in Polylines(m) : m > 0 => l[1] = Coord(0, 0)}, interval \in AnyIntervals :
        /\ osm_lines = <<>>
        /\ pcta_sections = <<[section_name |-> "Test", geometry |-> <<ls>>]>>
        /\ threshold_m = 0
        /\ min_length_m = 0
        /\ sample_interval_m = interval
        /\ osm_index = <<>>
        /\ main_pc = "finding"
        /\ worker = <<[IdleWorker EXCEPT !.pc = "sample", !.k = 1]>>
        /\ result = <<>>
        /\ query = None
        /\ nn = None
        /\ io = Loaded

\* SampleWhile, followed without end for a positive interval and for
\* MaxIterations samples otherwise.
SampleWhileCapped(s) ==
    /\ At(s, "while")
    /\ sample_interval_m > 0 \/ Len(worker[s].samples) <= MaxIterations
    /\ SampleWhile(s)

NextSampleAny ==
    \/ \E s \in Closures : SampleBegin(s)
    \/ \E s \in Closures : SampleLine(s)
    \/ \E s \in Closures : SampleWhileCapped(s)
    \/ \E s \in Closures : SampleLast(s)

\* sample_along is sequential code: it takes its next step whenever it has one.
SpecSampleFair == InitSampleAny /\ [][NextSampleAny]_vars /\ WF_vars(NextSampleAny)

-----------------------------------------------------------------------------
(* build_index and nearest_neighbor on any comparison dataset and point *)

Origin == Coord(0, 0)

\* Polylines that start at the origin and have at most one line.
Spokes ==
    {<<>>, <<Origin>>} \cup {<<Origin, q>> : q \in {p \in Points : Aligned(Origin, p)}}

\* The comparison datasets: none, one polyline, or a polyline and a spoke in
\* either order.
InitIndex ==
    \E m \in 0..MaxPts :
    \E a \in Polylines(m), b \in Spokes :
    \E lines \in {<<>>, <<a>>, <<a, b>>, <<b, a>>} :
        Start(lines, <<>>, 0, 0, 1)

\* One query is followed per behaviour: a query changes nothing but its own
\* result, so a second one starts from the same index.
NextIndex ==
    \/ BuildIndex
    \/ \E p \in Points : query = None /\ NearestNeighborQuery(p)

SpecIndex == InitIndex /\ [][NextIndex]_vars

-----------------------------------------------------------------------------
(* The whole run: build_index, then find_divergences *)

\* ls moved up by d grid rows.
Shift(ls, d) == [j \in 1..Len(ls) |-> Coord(ls[j].x, ls[j].y + d)]

\* Every vertex of ls is on grid row 0.
OnRowZero(ls) == \A j \in 1..Len(ls) : ls[j].y = 0

\* The comparison datasets a single reference polyline ls is compared with:
\* none; ls itself; ls moved up by d rows, for ls on row 0; the start of ls.
OsmFor(ls) ==
    {<<>>, <<ls>>, <<SubSeq(ls, 1, Len(ls) - 1)>>}
        \cup {<<Shift(ls, d)>> : d \in {e \in 1..MaxY : OnRowZero(ls)}}

\* One section of one polyline, any polyline of the bounds that starts at the
\* origin.
InitOneSection ==
    \E m \in 0..MaxPts :
    \E ls \in {l \in Polylines(m) : m > 0 => l[1] = Origin} :
    \E lines \in OsmFor(ls) :
    \E threshold \in Thresholds, min_length \in MinLengths, interval \in Intervals :
        Start(lines, <<[section_name |-> "A", geometry |-> <<ls>>]>>,
              threshold, min_length, interval)

\* The polylines of the runs of several sections: a short and a long line
\* along row 0.
RowLines == {<<Origin, Coord(1, 0)>>, <<Origin, Coord(MaxX, 0)>>}

\* No section, or MaxSections sections: the first of two polylines, the others
\* of one; the comparison dataset is empty or covers the first grid step; the
\* sampling interval is the widest.
InitSections ==
    \E first \in [1..2 -> RowLines], others \in [2..MaxSections -> RowLines] :
    \E sections \in {<<>>,
                     [s \in 1..MaxSections |->
                         IF s = 1 THEN [section_name |-> "A", geometry |-> first]
                         ELSE [section_name |-> "B", geometry |-> <<others[s]>>]]} :
    \E lines \in {<<>>, <<<<Origin, Coord(1, 0)>>>>} :
    \E threshold \in Thresholds, min_length \in MinLengths :
        Start(lines, sections, threshold, min_length, MaxInterval)

Init == InitOneSection \/ InitSections

Next ==
    \/ BuildIndex
    \/ FindDivergences
    \/ \E s \in Closures : NextLinestring(s)
    \/ \E s \in Closures : SampleBegin(s)
    \/ \E s \in Closures : SampleLine(s)
    \/ \E s \in Closures : SampleWhile(s)
    \/ \E s \in Closures : SampleLast(s)
    \/ \E s \in Closures : ComputeDistances(s)
    \/ \E s \in Closures : ScanStep(s)
    \/ \E s \in Closures : ScanReturn(s)
    \/ Collect

Spec == Init /\ [][Next]_vars

-----------------------------------------------------------------------------
(* main from its first line: load_pcta_gdb, fetch_relation_ways, the core, *)
(* the output file                                                          *)

\* The most sub-relations the top-level relation names.
MaxSubRelations == 2

\* Node id k of a response, where it has lat and lon, is at column k - 1 of
\* row 0.
NodeCoord(id) == Coord(id - 1, 0)

\* The coordinates of the node refs of a way from ref j on, the refs that are
\* not in the node lookup left out:
\* node_refs.iter().filter_map(|id| nodes.get(id)).copied().collect().
RECURSIVE WayCoords(_, _, _)
WayCoords(node_refs, nodes, j) ==
    IF j > Len(node_refs) THEN <<>>
    ELSE (IF node_refs[j] \in nodes THEN <<NodeCoord(node_refs[j])>> ELSE <<>>)
             \o WayCoords(node_refs, nodes, j + 1)

\* The linestrings of the ways from way j on: a way of fewer than 2 found
\* coordinates is left out.
RECURSIVE WayLines(_, _, _)
WayLines(ways, nodes, j) ==
    IF j > Len(ways) THEN <<>>
    ELSE (IF Len(WayCoords(ways[j], nodes, 1)) >= 2
          THEN <<WayCoords(ways[j], nodes, 1)>> ELSE <<>>)
             \o WayLines(ways, nodes, j + 1)

\* parse_full_response(json): Err if the body does not deserialize, else the
\* linestrings of its ways.  json.parses is whether the body deserializes,
\* json.nodes are the ids of the nodes that have lat and lon, json.ways the
\* node refs of each way.
ParseFullResponse(json) ==
    IF ~json.parses THEN [ok |-> FALSE, lines |-> <<>>]
    ELSE [ok |-> TRUE, lines |-> WayLines(json.ways, json.nodes, 1)]

\* The sub_relation_ids of a top-level response from member j on: the refs of
\* the members of type "relation".
RECURSIVE SubRelationIds(_, _)
SubRelationIds(members, j) ==
    IF j > Len(members) THEN <<>>
    ELSE (IF members[j].member_type = "relation" THEN <<members[j].member_ref>> ELSE <<>>)
             \o SubRelationIds(members, j + 1)

\* fetch_cached(client, url, cache_path) for the file `key` of the cache
\* directory: what it can return, and the cache afterwards.  A cached file is
\* read (or the read fails); else the body is requested (send,
\* error_for_status or text fails) and written to the cache (or the write
\* fails).
FetchCached(cache, key) ==
    IF key \in cache
    THEN {[ok |-> TRUE, cache |-> cache], [ok |-> FALSE, cache |-> cache]}
    ELSE {[ok |-> FALSE, cache |-> cache],
          [ok |-> TRUE, cache |-> cache \cup {key}]}

\* main or fetch_relation_ways returns Err from the named step (the `?`).
\* io.ret is what fetch_relation_ways has returned: "not called", "running",
\* "Ok" or "Err".
Failed(r, step) ==
    [pc |-> "failed",
     io |-> [r EXCEPT !.err = Some(step),
                      !.ret = IF step \in {"load", "write"} THEN @ ELSE "Err"]]

\* A slip of ParseSubStep: a response that does not parse is skipped and the
\* loop goes on to the next sub-relation.
ParseSubStepSkip(r) ==
    LET parsed == ParseFullResponse(r.remote[SubRelationIds(r.top.members, 1)[r.sub]]) IN
    [pc |-> "fetch_sub",
     io |-> [r EXCEPT !.all_lines = @ \o parsed.lines, !.sub = @ + 1]]

\* The body of the loop over sub_relation_ids after fetch_cached:
\* `let lines = parse_full_response(&full_json)...?; all_lines.extend(lines);`.
ParseSubStep(r) ==
    LET parsed == ParseFullResponse(r.remote[SubRelationIds(r.top.members, 1)[r.sub]]) IN
    IF parsed.ok
    THEN [pc |-> "fetch_sub",
          io |-> [r EXCEPT !.all_lines = @ \o parsed.lines, !.sub = @ + 1]]
    ELSE Failed(r, "parse_sub")

\* What main changes before and after the core leaves the core's state alone.
CoreUnchanged ==
    UNCHANGED <<threshold_m, min_length_m, sample_interval_m, osm_index,
                worker, result, query, nn>>

\* main: `let pcta_sections = load_pcta_gdb(&cli.pcta)?;`.  Each section
\* loaded has a closure that has not started.
LoadPctaGdb ==
    /\ main_pc = "load"
    /\ IF ~io.gdb.opens
       THEN /\ main_pc' = "failed"
            /\ io' = Failed(io, "load").io
            /\ UNCHANGED <<pcta_sections, worker>>
       ELSE /\ main_pc' = "create_dir"
            /\ pcta_sections' = io.gdb.sections
            /\ worker' = [s \in 1..Len(io.gdb.sections) |-> IdleWorker]
            /\ UNCHANGED io
    /\ UNCHANGED <<osm_lines, threshold_m, min_length_m, sample_interval_m,
                   osm_index, result, query, nn>>

\* fetch_relation_ways: `std::fs::create_dir_all(cache_dir)?` and the build
\* of the client, `.build()?`.
CreateDirAll ==
    /\ main_pc = "create_dir"
    /\ \E ok \in BOOLEAN :
           IF ok THEN main_pc' = "fetch_top" /\ io' = [io EXCEPT !.ret = "running"]
           ELSE main_pc' = "failed" /\ io' = Failed(io, "create_dir").io
    /\ UNCHANGED <<osm_lines, pcta_sections>>
    /\ CoreUnchanged

\* fetch_relation_ways: `let top_json = fetch_cached(...)?;` of relation.json,
\* file 0 of the cache.
FetchTop ==
    /\ main_pc = "fetch_top"
    /\ \E out \in FetchCached(io.cache, 0) :
           IF out.ok
           THEN main_pc' = "parse_top" /\ io' = [io EXCEPT !.cache = out.cache]
           ELSE main_pc' = "failed" /\ io' = Failed(io, "fetch_top").io
    /\ UNCHANGED <<osm_lines, pcta_sections>>
    /\ CoreUnchanged

\* fetch_relation_ways: `serde_json::from_str(&top_json)...?`, then
\* sub_relation_ids and `let mut all_lines = Vec::new();`.
ParseTop ==
    /\ main_pc = "parse_top"
    /\ IF ~io.top.parses
       THEN main_pc' = "failed" /\ io' = Failed(io, "parse_top").io
       ELSE main_pc' = "fetch_sub" /\ io' = [io EXCEPT !.sub = 1, !.all_lines = <<>>]
    /\ UNCHANGED <<osm_lines, pcta_sections>>
    /\ CoreUnchanged

\* The loop over sub_relation_ids: `let full_json = fetch_cached(...)?;` of
\* relation_{sub_id}_full.json, file sub_id of the cache.
FetchSub ==
    /\ main_pc = "fetch_sub"
    /\ io.sub <= Len(SubRelationIds(io.top.members, 1))
    /\ \E out \in FetchCached(io.cache, SubRelationIds(io.top.members, 1)[io.sub]) :
           IF out.ok
           THEN main_pc' = "parse_sub" /\ io' = [io EXCEPT !.cache = out.cache]
           ELSE main_pc' = "failed" /\ io' = Failed(io, "fetch_sub").io
    /\ UNCHANGED <<osm_lines, pcta_sections>>
    /\ CoreUnchanged

\* The loop over sub_relation_ids: parse_full_response and all_lines.extend.
ParseSub ==
    /\ main_pc = "parse_sub"
    /\ main_pc' = ParseSubStep(io).pc
    /\ io' = ParseSubStep(io).io
    /\ UNCHANGED <<osm_lines, pcta_sections>>
    /\ CoreUnchanged

\* fetch_relation_ways: `Ok(all_lines)` after the loop; main binds osm_lines.
FetchReturn ==
    /\ main_pc = "fetch_sub"
    /\ io.sub > Len(SubRelationIds(io.top.members, 1))
    /\ osm_lines' = io.all_lines
    /\ io' = [io EXCEPT !.ret = "Ok"]
    /\ main_pc' = "start"
    /\ UNCHANGED pcta_sections
    /\ CoreUnchanged

\* main after find_divergences: to_geojson, `to_string_pretty(&geojson)?` and
\* `std::fs::write(&cli.output, json)?`, then Ok(()).
WriteOutput ==
    /\ main_pc = "done"
    /\ \E ok \in BOOLEAN :
           IF ok THEN main_pc' = "exit" /\ io' = [io EXCEPT !.output = TRUE]
           ELSE main_pc' = "failed" /\ io' = Failed(io, "write").io
    /\ UNCHANGED <<osm_lines, pcta_sections>>
    /\ CoreUnchanged

\* The top-level responses: one that does not parse; 0..MaxSubRelations
\* members of type "relation", numbered from 1; a way and a relation.
Tops ==
    {[parses |-> FALSE, members |-> <<>>],
     [parses |-> TRUE,
      members |-> <<[member_type |-> "way", member_ref |-> MaxSubRelations],
                    [member_type |-> "relation", member_ref |-> 1]>>]}
        \cup {[parses |-> TRUE,
               members |-> [j \in 1..n |-> [member_type |-> "relation", member_ref |-> j]]] :
                  n \in 0..MaxSubRelations}

\* The full responses of a sub-relation: one that does not parse; no way; a
\* way of two nodes; a way with a ref to a node the response lacks; a way
\* left with one node.
Responses ==
    {[parses |-> FALSE, nodes |-> {}, ways |-> <<>>],
     [parses |-> TRUE, nodes |-> {1, 2}, ways |-> <<>>],
     [parses |-> TRUE, nodes |-> {1, 2}, ways |-> <<<<1, 2>>>>],
     [parses |-> TRUE, nodes |-> {1, 2}, ways |-> <<<<1, 2, 3>>>>],
     [parses |-> TRUE, nodes |-> {1}, ways |-> <<<<1, 2>>>>]}

\* The geodatabases: one that does not open, one of no section, one of a
\* section along the first grid step.
Gdbs ==
    {[opens |-> FALSE, sections |-> <<>>],
     [opens |-> TRUE, sections |-> <<>>],
     [opens |-> TRUE,
      sections |-> <<[section_name |-> "A", geometry |-> <<<<Origin, Coord(1, 0)>>>>]>>]}

\* main is entered: the geodatabase, the responses of the API and the files
\* of the cache directory are any of the above.
InitMain ==
    \E gdb \in Gdbs, top \in Tops, remote \in [1..MaxSubRelations -> Responses] :
    \E cache \in SUBSET (0..MaxSubRelations) :
        /\ osm_lines = <<>>
        /\ pcta_sections = <<>>
        /\ threshold_m = 0
        /\ min_length_m = 0
        /\ sample_interval_m = MaxInterval
        /\ osm_index = <<>>
        /\ main_pc = "load"
        /\ worker = <<>>
        /\ result = <<>>
        /\ query = None
        /\ nn = None
        /\ io = [gdb |-> gdb, top |-> top, remote |-> remote, cache |-> cache,
                 sub |-> 1, all_lines |-> <<>>, ret |-> "not called", err |-> None,
                 output |-> FALSE]

NextMain ==
    \/ LoadPctaGdb
    \/ CreateDirAll
    \/ FetchTop
    \/ ParseTop
    \/ FetchSub
    \/ ParseSub
    \/ FetchReturn
    \/ Next
    \/ WriteOutput

SpecMain == InitMain /\ [][NextMain]_vars

-----------------------------------------------------------------------------
(* What the claims speak of *)

\* The scan of worker record w is under way, or is over with its outcome
\* still in w (until ComputeDistances starts the next one).
Scanning(w) == w.pc = "scan"
Finished(w) == w.pc \in {"next", "done"} /\ w.distances # <<>>

\* [a, e), 0-based, is a maximal run of samples farther than the threshold.
MaximalRun(distances, threshold, a, e) ==
    /\ 0 <= a /\ a < e /\ e <= Len(distances)
    /\ \A j \in (a + 1)..e : distances[j].dist > threshold
    /\ a = 0 \/ distances[a].dist <= threshold
    /\ e = Len(distances) \/ distances[e + 1].dist <= threshold

MaximalRuns(distances, threshold) ==
    {r \in (0..Len(distances)) \X (0..Len(distances)) :
        MaximalRun(distances, threshold, r[1], r[2])}

\* The points of samples [a, e) in their original order, and their length.
RunPoints(distances, a, e) == [j \in 1..(e - a) |-> distances[a + j].coord]
RunLength(distances, a, e) == HaversineLength(RunPoints(distances, a, e))

\* The emit_divergence calls of w that pushed a record, in call order.
PushedCalls(w) == SelectSeq(w.calls, LAMBDA c : c.pushed > 0)

\* C1: every Divergence process_linestring has emitted is, point for point and
\* in sample order, a maximal run [s, e) of samples with distance > threshold
\* (so the samples around it are <= threshold, none inside it is), and no two
\* emitted records share a sample.
C1_EmittedAreMaximalRuns ==
    \A s \in Sections :
        LET w == worker[s]
            E == PushedCalls(w)
        IN  (Scanning(w) \/ Finished(w)) =>
            /\ Len(w.divergences) = Len(E)
            /\ \A m \in 1..Len(E) :
                /\ w.divergences[m].pcta_segment = RunPoints(w.distances, E[m].start, E[m].end)
                /\ MaximalRun(w.distances, threshold_m, E[m].start, E[m].end)
                /\ \A j \in (E[m].start + 1)..E[m].end : ~(w.distances[j].dist <= threshold_m)
            /\ \A m, o \in 1..Len(E) :
                m # o => (E[m].end <= E[o].start \/ E[o].end <= E[m].start)

\* C1's case: a finished scan that emitted two runs, one of them with a
\* sample at or below the threshold on either side.
C1_Witness ==
    \E s \in Sections :
        LET w == worker[s] IN
        /\ Finished(w)
        /\ Len(w.divergences) = 2
        /\ \E m \in 1..Len(w.calls) :
            /\ w.calls[m].pushed = 1
            /\ w.calls[m].start > 0
            /\ w.calls[m].end < Len(w.distances)
            /\ w.calls[m].end - w.calls[m].start >= 2

\* C2: a finalized run is emitted if and only if the length of its
\* sub-polyline is >= min_length, so every Divergence, in a closure's lists and
\* in the result of find_divergences, has length_m >= min_length.
C2_EmittedIffLongEnough ==
    /\ \A s \in Sections :
        LET w == worker[s] IN
        /\ (Scanning(w) \/ Finished(w)) =>
              \A m \in 1..Len(w.calls) :
                  /\ w.calls[m].pushed \in {0, 1}
                  /\ w.calls[m].pushed = 1 <=>
                        RunLength(w.distances, w.calls[m].start, w.calls[m].end) >= min_length_m
        /\ \A m \in 1..Len(w.divergences) : w.divergences[m].length_m >= min_length_m
        /\ \A m \in 1..Len(w.divs) : w.divs[m].length_m >= min_length_m
    /\ \A m \in 1..Len(result) : result[m].length_m >= min_length_m

\* C2's case: find_divergences has returned a record of a run exactly
\* min_length long, having dropped a shorter run.
C2_Witness ==
    /\ main_pc = "done"
    /\ min_length_m > 0
    /\ \E m \in 1..Len(result) : result[m].length_m = min_length_m
    /\ \E s \in Sections : \E m \in 1..Len(worker[s].calls) :
          /\ worker[s].calls[m].pushed = 0
          /\ worker[s].calls[m].end - worker[s].calls[m].start >= 2

\* C3: when the scan of a polyline is over, its records are, in increasing
\* order of run start, exactly the maximal divergent runs whose length is
\* >= min_length: one record per such run, never a merged one (two runs
\* apart by a sample at or below the threshold, each long enough, give two).
C3_OneRecordPerLongRun ==
    \A s \in Sections :
        LET w == worker[s]
            E == PushedCalls(w)
            long == {r \in MaximalRuns(w.distances, threshold_m) :
                        RunLength(w.distances, r[1], r[2]) >= min_length_m}
        IN  Finished(w) =>
            /\ Len(w.divergences) = Cardinality(long)
            /\ {<<E[m].start, E[m].end>> : m \in 1..Len(E)} = long
            /\ \A m \in 1..(Len(E) - 1) : E[m].start < E[m + 1].start
            /\ \A m \in 1..Len(w.divergences) :
                  /\ m <= Len(E)
                  /\ w.divergences[m].pcta_segment = RunPoints(w.distances, E[m].start, E[m].end)

\* C3's case: two runs of positive length, apart by a converged sample, each
\* at least min_length > 0 long, and two records.
C3_Witness ==
    \E s \in Sections :
        LET w == worker[s] IN
        /\ Finished(w)
        /\ min_length_m > 0
        /\ Len(w.divergences) = 2
        /\ Cardinality(MaximalRuns(w.distances, threshold_m)) = 2
        /\ w.divergences[1].length_m >= min_length_m
        /\ w.divergences[2].length_m >= min_length_m

\* C4: when the scan is over the detector is Outside (run_start is None) and
\* every maximal run was finalized by a call; a run the last sample belongs to
\* was finalized by the sentinel iteration over [run_start, number of samples).
C4_OpenRunClosedAtEnd ==
    \A s \in Sections :
        LET w == worker[s]
            n == Len(w.distances)
        IN  Finished(w) =>
            /\ w.run_start = None
            /\ \A r \in MaximalRuns(w.distances, threshold_m) :
                  \E m \in 1..Len(w.calls) : w.calls[m].start = r[1] /\ w.calls[m].end = r[2]
            /\ w.distances[n].dist > threshold_m =>
                  /\ Len(w.calls) > 0
                  /\ w.calls[Len(w.calls)].end = n
                  /\ MaximalRun(w.distances, threshold_m, w.calls[Len(w.calls)].start, n)

\* C4's case: the last sample is divergent, its run started after a converged
\* sample, and the scan is over.
C4_Witness ==
    \E s \in Sections :
        LET w == worker[s]
            n == Len(w.distances)
        IN  /\ Finished(w)
            /\ n >= 3
            /\ w.distances[n].dist > threshold_m
            /\ Len(w.calls) > 0
            /\ w.calls[Len(w.calls)].end = n
            /\ w.calls[Len(w.calls)].start > 0
            /\ w.calls[Len(w.calls)].pushed = 1

-----------------------------------------------------------------------------
(* C9 *)

\* sample_along has returned, for closure s, the samples of a polyline of at
\* least 2 points.
Sampled(s) == At(s, "sampled") /\ Len(Ls(s)) >= 2

\* The interval is smaller than the length of the polyline of closure s.
IntervalBelowLength(s) == sample_interval_m < HaversineLength(Ls(s))

\* C9 as stated: the samples of a polyline of at least 2 points start at its
\* first vertex and end at its last, and there are more than two of them when
\* the interval is smaller than the polyline's length.
C9_MoreThanTwoSamples ==
    \A s \in Sections :
        Sampled(s) =>
            /\ worker[s].samples[1] = Ls(s)[1]
            /\ worker[s].samples[Len(worker[s].samples)] = Ls(s)[Len(Ls(s))]
            /\ IntervalBelowLength(s) => Len(worker[s].samples) > 2

\* C9, amended: the samples of a polyline of at least 2 points start at its
\* first vertex and end at its last; the last vertex is appended exactly when
\* the last sample of the loop differs from it; and when the interval is
\* smaller than the polyline's length the loop emits at least one sample after
\* the first vertex, so that the result has more than two samples unless that
\* is the loop's only sample and lies on the last vertex.
C9_EndsAndInteriorSample ==
    /\ [](\A s \in Sections :
            /\ Sampled(s) =>
                  /\ worker[s].samples[1] = Ls(s)[1]
                  /\ worker[s].samples[Len(worker[s].samples)] = Ls(s)[Len(Ls(s))]
                  /\ IntervalBelowLength(s) => Len(worker[s].samples) >= 2
            /\ At(s, "last") =>
                  /\ worker[s].samples[1] = Ls(s)[1]
                  /\ IntervalBelowLength(s) => Len(worker[s].samples) >= 2)
    /\ [][\A s \in Sections :
            (At(s, "last") /\ worker'[s].pc = "sampled") =>
                LET before == worker[s].samples
                    after == worker'[s].samples
                    last == Ls(s)[Len(Ls(s))]
                IN  /\ after = IF before[Len(before)] # last
                               THEN Append(before, last) ELSE before
                    /\ (IntervalBelowLength(s)
                          /\ ~(Len(before) = 2 /\ before[2] = last))
                       => Len(after) > 2]_vars

\* C9's case: an interval below the length of the polyline, a sample of the
\* loop that is not on the last vertex, and the last vertex appended after it.
C9_Witness ==
    \E s \in Sections :
        /\ Sampled(s)
        /\ IntervalBelowLength(s)
        /\ Len(worker[s].samples) > 2
        /\ worker[s].remaining # sample_interval_m
        /\ worker[s].samples[Len(worker[s].samples) - 1] # Ls(s)[Len(Ls(s))]

-----------------------------------------------------------------------------
(* Identical, parallel and absent comparison data *)

\* There is one section of one polyline.
OnePolyline == Len(pcta_sections) = 1 /\ Len(pcta_sections[1].geometry) = 1
ThePolyline == pcta_sections[1].geometry[1]

\* The reference polyline and the comparison polyline have the same
\* coordinates.
Identical == OnePolyline /\ osm_lines = <<ThePolyline>>

\* The run is over, or closure s has the distances of a polyline in hand.
HasDistances(s) == s \in Sections /\ worker[s].distances # <<>>

\* C5 as stated: identical polylines give no divergence for any threshold > 0.
C5_IdenticalNoDivergence ==
    (main_pc = "done" /\ Identical /\ threshold_m > 0) => result = <<>>

\* C5, amended: when the reference polyline has at least two points and the
\* comparison polyline has the same coordinates, every sample is at distance 0
\* of the index, and find_divergences returns no divergence for every
\* threshold > 0, every min_length and every sample interval.
C5_IdenticalProperNoDivergence ==
    (Identical /\ Len(ThePolyline) >= 2) =>
        /\ HasDistances(1) =>
              \A j \in 1..Len(worker[1].distances) : worker[1].distances[j].dist = 0
        /\ (main_pc = "done" /\ threshold_m > 0) => result = <<>>

\* C5's case: a polyline with a corner compared with itself under a finite
\* threshold > 0 and min_length 0; the run is over, without a divergence.
C5_Witness ==
    /\ main_pc = "done"
    /\ Identical
    /\ Len(ThePolyline) >= 3
    /\ ThePolyline[1].y # ThePolyline[Len(ThePolyline)].y
    /\ ThePolyline[1].x # ThePolyline[Len(ThePolyline)].x
    /\ threshold_m > 0 /\ threshold_m < F64MAX
    /\ min_length_m = 0
    /\ Len(worker[1].distances) >= 3
    /\ result = <<>>

\* The reference polyline runs along row 0, has a length, and the comparison
\* polyline is the same line d rows up: a constant distance d apart.
Parallel(d) ==
    /\ OnePolyline
    /\ Len(ThePolyline) >= 2
    /\ OnRowZero(ThePolyline)
    /\ HaversineLength(ThePolyline) > 0
    /\ osm_lines = <<Shift(ThePolyline, d)>>

\* Some record of the result spans the samples of the polyline, first to last.
SpansAllSamples ==
    \E m \in 1..Len(result) : result[m].pcta_segment = worker[1].samples

\* C6 as stated: no divergence when threshold > D; when threshold < D, at
\* least one divergence, spanning the first to the last sample.
C6_ParallelByThreshold ==
    \A d \in 1..MaxY :
        (main_pc = "done" /\ Parallel(d)) =>
            /\ threshold_m > d => result = <<>>
            /\ threshold_m < d => SpansAllSamples

\* C6, amended: for parallel polylines a distance D apart every sample has
\* distance D; find_divergences returns no divergence when threshold > D; when
\* threshold < D it returns a divergence spanning the first to the last sample
\* (and no other) if the length of the sampled polyline is >= min_length, and
\* no divergence if it is below min_length.
C6_ParallelByThresholdAndLength ==
    \A d \in 1..MaxY :
        Parallel(d) =>
            /\ HasDistances(1) =>
                  \A j \in 1..Len(worker[1].distances) : worker[1].distances[j].dist = d
            /\ main_pc = "done" =>
                  /\ threshold_m > d => result = <<>>
                  /\ (threshold_m < d /\ HaversineLength(worker[1].samples) >= min_length_m) =>
                        Len(result) = 1 /\ SpansAllSamples
                  /\ (threshold_m < d /\ HaversineLength(worker[1].samples) < min_length_m) =>
                        result = <<>>

\* C6's case: parallel lines of three samples or more, a threshold below
\* their distance and a min_length > 0: one divergence, first to last sample.
C6_Witness ==
    \E d \in 1..MaxY :
        /\ main_pc = "done"
        /\ Parallel(d)
        /\ threshold_m < d
        /\ min_length_m > 0
        /\ Len(worker[1].samples) >= 3
        /\ Len(result) = 1
        /\ result[1].pcta_segment = worker[1].samples
        /\ result[1].max_distance_m = d

\* What C7 says of a polyline scanned against an empty index: its samples are
\* one run [0, n), emitted as one record of all samples if and only if the
\* length of the sampled polyline is >= min_length.
OneRunOfAll(w) ==
    /\ \A j \in 1..Len(w.distances) : w.distances[j].dist > threshold_m
    /\ Len(w.calls) = 1
    /\ w.calls[1].start = 0 /\ w.calls[1].end = Len(w.distances)
    /\ IF HaversineLength(w.samples) >= min_length_m
       THEN Len(w.divergences) = 1 /\ w.divergences[1].pcta_segment = w.samples
       ELSE w.divergences = <<>>

\* C7 as stated: against an empty index, no section gives an empty result,
\* and every non-empty polyline is one divergent run whatever the threshold.
C7_EmptyIndexOneRun ==
    Len(osm_index) = 0 =>
        /\ (main_pc = "done" /\ pcta_sections = <<>>) => result = <<>>
        /\ \A s \in Sections : Finished(worker[s]) => OneRunOfAll(worker[s])
        /\ (main_pc = "done" /\ OnePolyline) => result = worker[1].divergences

\* C7, amended: the same for every threshold below f64::MAX, the distance
\* given to a sample when the index is empty.
C7_EmptyIndexOneRunBelowMax ==
    (Len(osm_index) = 0 /\ threshold_m < F64MAX) =>
        /\ (main_pc = "done" /\ pcta_sections = <<>>) => result = <<>>
        /\ \A s \in Sections : Finished(worker[s]) => OneRunOfAll(worker[s])
        /\ (main_pc = "done" /\ OnePolyline) => result = worker[1].divergences

\* C7's case: no comparison polyline, a reference polyline of three samples or
\* more and a min_length > 0: one record of all samples, at distance f64::MAX.
C7_Witness ==
    /\ main_pc = "done"
    /\ osm_lines = <<>>
    /\ OnePolyline
    /\ min_length_m > 0
    /\ Len(worker[1].samples) >= 3
    /\ Len(result) = 1
    /\ result[1].pcta_segment = worker[1].samples
    /\ result[1].max_distance_m = F64MAX

-----------------------------------------------------------------------------
(* The index and its nearest-neighbour query *)

\* The consecutive vertex pairs of the comparison polylines: <<j, n>> is the
\* pair of vertices n and n + 1 of polyline j.
VertexPairs ==
    {q \in (1..Len(osm_lines)) \X (1..MaxPts) : q[2] + 1 <= Len(osm_lines[q[1]])}

PointToSegmentDistance(p, seg) == HaversinePointToSegment(p, seg.start, seg.end)

-----------------------------------------------------------------------------
(* The result as the union of the per-polyline results *)

\* A sequence as a multiset: how often each of its elements occurs.
SeqToBag(seq) ==
    [x \in {seq[j] : j \in 1..Len(seq)} |-> Cardinality({j \in 1..Len(seq) : seq[j] = x})]

\* process_linestring on its own for every polyline from polyline k of
\* section s on, in the order of the input.
RECURSIVE EachAlone(_, _)
EachAlone(s, k) ==
    IF s > Len(pcta_sections) THEN <<>>
    ELSE IF k > Len(pcta_sections[s].geometry) THEN EachAlone(s + 1, 1)
    ELSE ProcessLinestring(pcta_sections[s].geometry[k], pcta_sections[s].section_name,
                           BuildIndexSegments(osm_lines),
                           threshold_m, min_length_m, sample_interval_m)
         \o EachAlone(s, k + 1)

\* C10: whatever the interleaving of the closures, find_divergences returns,
\* as a multiset, the records of the sampler and run detector run on every
\* polyline of every section on its own; every record carries the name of the
\* section of its polyline; the index is as build_index left it.
C10_ResultIsUnionOfPolylines ==
    /\ main_pc \in {"finding", "done"} => osm_index = BuildIndexSegments(osm_lines)
    /\ \A s \in Sections : \A m \in 1..Len(worker[s].divs) :
          worker[s].divs[m].section_name = pcta_sections[s].section_name
    /\ main_pc = "done" =>
          /\ SeqToBag(result) = SeqToBag(EachAlone(1, 1))
          /\ \A m \in 1..Len(result) : \E s \in Sections :
                /\ result[m].section_name = pcta_sections[s].section_name
                /\ \E o \in 1..Len(worker[s].divs) : worker[s].divs[o] = result[m]

\* C10's case: two sections of different names, two records from the
\* polylines of one and a record from the other, all in the result.
C10_Witness ==
    /\ main_pc = "done"
    /\ Len(pcta_sections) >= 2
    /\ pcta_sections[1].section_name # pcta_sections[2].section_name
    /\ Len(worker[1].divs) = 2
    /\ worker[1].divs[1] # worker[1].divs[2]
    /\ Len(worker[2].divs) = 1
    /\ Len(result) >= 3

-----------------------------------------------------------------------------
(* The figures of a Divergence *)

\* The sum, as a number and not as an f64, of the distances of samples [a, e).
RECURSIVE RunSum(_, _, _)
RunSum(distances, a, e) ==
    IF a >= e THEN 0 ELSE distances[a + 1].dist + RunSum(distances, a + 1, e)

\* The greatest of the distances of samples [a, e), a < e.
RunMax(distances, a, e) ==
    CHOOSE d \in {distances[j].dist : j \in (a + 1)..e} :
        \A j \in (a + 1)..e : distances[j].dist <= d

\* C11: every record a scan has emitted has, for the samples [a, e) of its
\* run, max_distance_m their greatest distance, mean_distance_m their
\* arithmetic mean (their sum over their number), length_m the length of their
\* polyline, and threshold < mean_distance_m <= max_distance_m.
C11_FiguresOfTheRun ==
    \A s \in Sections :
        LET w == worker[s]
            E == PushedCalls(w)
        IN  (Scanning(w) \/ Finished(w)) =>
            \A m \in 1..Len(E) :
                m <= Len(w.divergences) =>
                LET d == w.divergences[m]
                    a == E[m].start
                    e == E[m].end
                IN  /\ d.max_distance_m = RunMax(w.distances, a, e)
                    /\ d.mean_distance_m.num * (e - a)
                          = RunSum(w.distances, a, e) * d.mean_distance_m.den
                    /\ d.length_m = RunLength(w.distances, a, e)
                    /\ threshold_m * d.mean_distance_m.den < d.mean_distance_m.num
                    /\ d.mean_distance_m.num <= d.max_distance_m * d.mean_distance_m.den

-----------------------------------------------------------------------------
(* Where the samples of sample_along lie *)

\* The point at arc length arc along ls, counted from the start of line j.
RECURSIVE ArcPoint(_, _, _)
ArcPoint(ls, j, arc) ==
    LET line == Lines(ls)[j]
        len == HaversineDistance(line.start, line.end)
    IN  IF j > Len(Lines(ls)) THEN ls[Len(ls)]
        ELSE IF len = 0 THEN ArcPoint(ls, j + 1, arc)
        ELSE IF arc <= len
        THEN Coord(line.start.x + (arc * (line.end.x - line.start.x)) \div len,
                   line.start.y + (arc * (line.end.y - line.start.y)) \div len)
        ELSE ArcPoint(ls, j + 1, arc - len)

\* The length of the lines of ls before line j.
LengthBefore(ls, j) == SumLengths(SubSeq(Lines(ls), 1, j - 1), 1)

\* sample_along is in its loop over the lines of the polyline of closure s,
\* or has just left it.
InLoop(s) == At(s, "line") \/ At(s, "while") \/ At(s, "last")

\* C12: in sample_along the k-th sample after the first vertex lies at arc
\* length k * interval from the first vertex, in this order, and when the loop
\* is over there is one for every k in 1 .. floor(L / interval) (so a sample
\* owed exactly at the end of a line is emitted); what is owed at the start of
\* a line, and at each test of the inner loop, is the arc length of the next
\* sample less the length of the lines before, zero-length lines included.
C12_SamplesAtMultiplesOfInterval ==
    \A s \in Sections :
        LET w == worker[s]
            n == Len(w.samples) - 1
            next == (n + 1) * sample_interval_m
        IN  /\ InLoop(s) =>
                  \A k \in 1..n :
                      /\ k * sample_interval_m <= HaversineLength(Ls(s))
                      /\ w.samples[k + 1] = ArcPoint(Ls(s), 1, k * sample_interval_m)
            /\ At(s, "line") => w.remaining = next - LengthBefore(Ls(s), w.line)
            /\ At(s, "while") => w.offset = next - LengthBefore(Ls(s), w.line)
            /\ At(s, "last") => n = HaversineLength(Ls(s)) \div sample_interval_m

\* C12's case: the loop is over on a polyline of two lines; the first is no
\* multiple of the interval, so that what is owed was carried into the
\* second, and the last sample was owed exactly at the end of the second.
C12_Witness ==
    \E s \in Sections :
        LET w == worker[s]
            lines == Lines(Ls(s))
        IN  /\ At(s, "last")
            /\ Len(lines) >= 2
            /\ HaversineDistance(lines[1].start, lines[1].end) % sample_interval_m # 0
            /\ HaversineDistance(lines[2].start, lines[2].end) > 0
            /\ HaversineLength(Ls(s)) % sample_interval_m = 0
            /\ w.samples[Len(w.samples)] = Ls(s)[Len(Ls(s))]
            /\ Len(w.samples) >= 3

-----------------------------------------------------------------------------
(* Divisors and the values they give *)

\* The figures of Divergence d are numbers: neither infinite nor a quotient by 0.
FiniteFigures(d) ==
    /\ d.max_distance_m < Inf
    /\ d.mean_distance_m.num < Inf
    /\ d.mean_distance_m.den >= 1
    /\ d.length_m < Inf

\* C13: whatever the geometry, the sampler divides by the length of a line
\* only when it is >= 1e-10; the projection divides by dx*dx + dy*dy, for any
\* indexed segment, only when that is not 0; emit_divergence is never called
\* with an empty run; and no infinite value is in a Divergence of a closure or
\* of the result.
C13_NoZeroDivisorNoInfinity ==
    /\ \A s \in Sections :
        LET w == worker[s] IN
        /\ At(s, "while") =>
              HaversineDistance(Lines(Ls(s))[w.line].start, Lines(Ls(s))[w.line].end)
                  >= Epsilon
        /\ \A m \in 1..Len(w.calls) : w.calls[m].end - w.calls[m].start >= 1
        /\ \A m \in 1..Len(w.divergences) : FiniteFigures(w.divergences[m])
        /\ \A m \in 1..Len(w.divs) : FiniteFigures(w.divs[m])
    /\ \A n \in 1..Len(osm_index) :
          LET seg == osm_index[n]
              dx == seg.end.x - seg.start.x
              dy == seg.end.y - seg.start.y
          IN  HaversineDistance(seg.start, seg.end) >= Epsilon => dx * dx + dy * dy # 0
    /\ \A m \in 1..Len(result) : FiniteFigures(result[m])

-----------------------------------------------------------------------------
(* Failures before the core *)

\* The steps of main that come before build_index.
StepsBeforeCore ==
    {"load", "create_dir", "fetch_top", "parse_top", "fetch_sub", "parse_sub"}

\* The states of main from the call of build_index on.
CoreEntered ==
    main_pc \in {"start", "indexed", "finding", "done", "exit"}
        \/ io.err = Some("write")

\* What parse_full_response yields for the sub-relations from the j-th id on,
\* joined in the order of the ids.
RECURSIVE LinesOfAll(_, _, _)
LinesOfAll(ids, remote, j) ==
    IF j > Len(ids) THEN <<>>
    ELSE ParseFullResponse(remote[ids[j]]).lines \o LinesOfAll(ids, remote, j + 1)

\* The linestring of a way of a response, if all its node refs have lat and
\* lon in the response.
WholeWay(json, way) == [j \in 1..Len(way) |-> NodeCoord(way[j])]

-----------------------------------------------------------------------------
(* Termination of sample_along *)

\* The line of the polyline of closure 1 that sample_along has in hand.
LineInHand == Lines(Ls(1))[worker[1].line]

\* An iteration of `while offset <= seg_len` of closure 1 is about to run.
LoopRuns ==
    /\ At(1, "while")
    /\ worker[1].offset <= HaversineDistance(LineInHand.start, LineInHand.end)

\* The polyline of closure 1 has a line that is not skipped.
HasLongLine ==
    \E j \in 1..Len(Lines(Ls(1))) :
        HaversineDistance(Lines(Ls(1))[j].start, Lines(Ls(1))[j].end) >= Epsilon

\* C15: for every polyline and every interval > 0, sample_along returns; each
\* iteration of the inner loop pushes one sample and moves the offset on by
\* the interval; at most floor(L/interval) + 2 samples are returned.  An
\* interval <= 0 is let through to the loop, where the offset never passes
\* the length of a line that is not skipped, and sample_along never returns.
C15_TerminatesForPositiveInterval ==
    /\ (sample_interval_m > 0) => <>At(1, "sampled")
    /\ [][LoopRuns =>
            /\ worker'[1].offset = worker[1].offset + sample_interval_m
            /\ Len(worker'[1].samples) = Len(worker[1].samples) + 1
            /\ worker'[1].pc = "while"]_vars
    /\ []((sample_interval_m > 0 /\ At(1, "sampled")) =>
            Len(worker[1].samples)
                <= (HaversineLength(Ls(1)) \div sample_interval_m) + 2)
    /\ []((sample_interval_m <= 0 /\ At(1, "while")) => LoopRuns)
    /\ (sample_interval_m <= 0 /\ HasLongLine) => [](~At(1, "sampled"))

\* C15's case: sample_along has returned floor(L/interval) + 2 samples, at
\* least two of them pushed by the inner loop.
C15_Witness ==
    /\ At(1, "sampled")
    /\ sample_interval_m > 0
    /\ HaversineLength(Ls(1)) >= 2 * sample_interval_m
    /\ Len(worker[1].samples) = (HaversineLength(Ls(1)) \div sample_interval_m) + 2

=============================================================================
